---- MODULE Spec2Model ----
(***************************************************************************)
(* The submission pipeline of the zoo management server:                   *)
(* server/routes.ts (the Express routes and the report renderer) over      *)
(* server/storage.ts (DatabaseStorage) and shared/schema.ts (the tables).  *)
(*                                                                         *)
(* The two handlers that await more than one store or file operation       *)
(* (POST /api/submissions/audio and PUT /api/submissions/:id) are modelled *)
(* step by step, one action per await, each running in a request slot, so  *)
(* that requests interleave as they do on the Node event loop.  The other  *)
(* handlers await one store call and are one action each; their response   *)
(* is an operator of the state and the request.                            *)
(***************************************************************************)
EXTENDS Integers, Sequences, FiniteSets, TLC

\* ------------------------------------------------------------- bounds

\* Rows the submissions table holds before an insert is refused.
MaxSubs == 2
\* Rows the comments table holds before an insert is refused.
MaxComments == 1
\* The last value of the clock (Date.now(), new Date()).
MaxTime == 1

\* ------------------------------------------------------ users, sessions

\* A request without a session user (req.session.user undefined).
NoUser == [id |-> "-", userId |-> "-", role |-> "-", name |-> "-"]

\* The rows of the users table.  role is a free varchar: the comment of the
\* column lists 'admin', 'doctor', 'zookeeper', the column accepts any text.
Users ==
  { [id |-> "u1", userId |-> "keeperA", role |-> "zookeeper", name |-> "Asha"],
    [id |-> "u2", userId |-> "keeperB", role |-> "zookeeper", name |-> "Bala"],
    [id |-> "u3", userId |-> "doc",     role |-> "doctor",    name |-> "Dev"],
    [id |-> "u4", userId |-> "adm",     role |-> "admin",     name |-> "Anil"],
    [id |-> "u5", userId |-> "vis",     role |-> "visitor",   name |-> "Vik"] }

\* What req.session.user can be: a users row (set at login) or nothing.
Identities == Users \cup {NoUser}

UserById(uid) == CHOOSE u \in Users : u.id = uid

\* A requireAuth that lets every request through.
requireAuthOff(user) == TRUE

\* requireAuth: next() iff the session holds a user.
requireAuth(user) == user # NoUser

\* A requireRole that lets every authenticated user through.
requireRoleOff(roles, user) == user # NoUser

\* requireRole(roles): next() iff roles.includes(req.session?.user?.role).
requireRole(roles, user) == user # NoUser /\ user.role \in roles

\* ------------------------------------------- structured observation

\* A text value is a sequence of string fragments (a template literal keeps
\* the value it interpolates as a fragment of its own).
Txt(str) == <<str>>
\* JavaScript null as a field value (undefined is the field being absent).
Null == <<"<null>">>
EmptyText == <<"">>

\* The dates a request body carries; "" is a missing or empty date.
Dates == {"2024-05-01"}
NoDate == ""

Has(data, f) == f \in DOMAIN data

\* A boolean flag read in a condition: data.f ? "Yes" : "No".
YesNo(data, f) == IF Has(data, f) /\ data[f] = TRUE THEN "Yes" ELSE "No"

\* A text field read in a condition: undefined, null and "" are falsy.
Truthy(data, f) == Has(data, f) /\ data[f] \notin {Null, EmptyText}

\* A text field interpolated into a template literal.
Interpolate(data, f) ==
  IF ~Has(data, f) THEN Txt("undefined")
  ELSE IF data[f] = Null THEN Txt("null")
  ELSE data[f]

\* A generateTxtReport whose footer carries the time of generation too.
generateTxtReportStampedFooter(data, keeperName, date, stamp) ==
  << <<"ZOO ANIMAL MONITORING REPORT">>,
     <<"============================">>,
     <<"">>,
     <<"Date: ", date>>,
     <<"Zoo Keeper: ", keeperName>>,
     <<"Generated: ", stamp>>,
     <<"">>,
     <<"OBSERVATION DETAILS">>,
     <<"-------------------">>,
     <<"Animal Observed on Time: ", YesNo(data, "animal_observed_on_time")>>,
     <<"Clean Drinking Water Provided: ", YesNo(data, "clean_drinking_water_provided")>>,
     <<"Enclosure Cleaned Properly: ", YesNo(data, "enclosure_cleaned_properly")>>,
     <<"Normal Behaviour Status: ", YesNo(data, "normal_behaviour_status")>>,
     IF Truthy(data, "normal_behaviour_details")
       THEN <<"Behaviour Details: ">> \o data["normal_behaviour_details"]
       ELSE <<"">>,
     <<"Feed and Supplements Available: ", YesNo(data, "feed_and_supplements_available")>>,
     <<"Feed Given as Prescribed: ", YesNo(data, "feed_given_as_prescribed")>>,
     IF Truthy(data, "other_animal_requirements")
       THEN <<"Other Requirements: ">> \o data["other_animal_requirements"]
       ELSE <<"">>,
     <<"">>,
     <<"MONITORING SUMMARIES">>,
     <<"--------------------">>,
     <<"Daily Animal Health Monitoring:">>,
     Interpolate(data, "daily_animal_health_monitoring"),
     <<"">>,
     <<"Carnivorous Animal Feeding Chart:">>,
     Interpolate(data, "carnivorous_animal_feeding_chart"),
     <<"">>,
     <<"Medicine Stock Register:">>,
     Interpolate(data, "medicine_stock_register"),
     <<"">>,
     <<"Daily Wildlife Monitoring:">>,
     Interpolate(data, "daily_wildlife_monitoring"),
     <<"">>,
     <<"AUTHORIZATION">>,
     <<"-------------">>,
     <<"In-charge Signature: ">> \o Interpolate(data, "incharge_signature"),
     <<"">>,
     <<"---">>,
     <<"This report was generated automatically by the Zoo Management System at ", stamp>> >>

\* generateTxtReport: the lines of the report (the template, trimmed).
\* data is an object; null and undefined make the first property read throw
\* (see Renders).  stamp is new Date().toLocaleString().
generateTxtReport(data, keeperName, date, stamp) ==
  << <<"ZOO ANIMAL MONITORING REPORT">>,
     <<"============================">>,
     <<"">>,
     <<"Date: ", date>>,
     <<"Zoo Keeper: ", keeperName>>,
     <<"Generated: ", stamp>>,
     <<"">>,
     <<"OBSERVATION DETAILS">>,
     <<"-------------------">>,
     <<"Animal Observed on Time: ", YesNo(data, "animal_observed_on_time")>>,
     <<"Clean Drinking Water Provided: ", YesNo(data, "clean_drinking_water_provided")>>,
     <<"Enclosure Cleaned Properly: ", YesNo(data, "enclosure_cleaned_properly")>>,
     <<"Normal Behaviour Status: ", YesNo(data, "normal_behaviour_status")>>,
     IF Truthy(data, "normal_behaviour_details")
       THEN <<"Behaviour Details: ">> \o data["normal_behaviour_details"]
       ELSE <<"">>,
     <<"Feed and Supplements Available: ", YesNo(data, "feed_and_supplements_available")>>,
     <<"Feed Given as Prescribed: ", YesNo(data, "feed_given_as_prescribed")>>,
     IF Truthy(data, "other_animal_requirements")
       THEN <<"Other Requirements: ">> \o data["other_animal_requirements"]
       ELSE <<"">>,
     <<"">>,
     <<"MONITORING SUMMARIES">>,
     <<"--------------------">>,
     <<"Daily Animal Health Monitoring:">>,
     Interpolate(data, "daily_animal_health_monitoring"),
     <<"">>,
     <<"Carnivorous Animal Feeding Chart:">>,
     Interpolate(data, "carnivorous_animal_feeding_chart"),
     <<"">>,
     <<"Medicine Stock Register:">>,
     Interpolate(data, "medicine_stock_register"),
     <<"">>,
     <<"Daily Wildlife Monitoring:">>,
     Interpolate(data, "daily_wildlife_monitoring"),
     <<"">>,
     <<"AUTHORIZATION">>,
     <<"-------------">>,
     <<"In-charge Signature: ">> \o Interpolate(data, "incharge_signature"),
     <<"">>,
     <<"---">>,
     <<"This report was generated automatically by the Zoo Management System.">> >>

\* The JSON values a structuredData can be besides an object.
JsonNull == [json |-> "null"]

\* A generateTxtReport that renders null as it renders an empty object.
RendersAny(data) == TRUE

\* generateTxtReport throws a TypeError on data.animal_observed_on_time when
\* data is null.
Renders(data) == data # JsonNull

\* FallbackData with texts that do not carry the date.
FallbackDataUndated(user, date) ==
  [ date_or_day |-> date,
    animal_observed_on_time |-> TRUE,
    clean_drinking_water_provided |-> TRUE,
    enclosure_cleaned_properly |-> TRUE,
    normal_behaviour_status |-> TRUE,
    normal_behaviour_details |-> Null,
    feed_and_supplements_available |-> TRUE,
    feed_given_as_prescribed |-> TRUE,
    other_animal_requirements |-> Txt("Audio processing error - manual review required"),
    incharge_signature |-> Txt(user.name),
    daily_animal_health_monitoring |->
      Txt("Observation recorded - Audio processing encountered an error"),
    carnivorous_animal_feeding_chart |-> Txt("Standard feeding schedule followed"),
    medicine_stock_register |-> Txt("Stock levels adequate"),
    daily_wildlife_monitoring |-> Txt("Wildlife monitoring completed") ]

\* The fallback record of the catch block of POST /api/submissions/audio.
\* The template literals carry the date as a fragment: <<text, date, text>>.
FallbackData(user, date) ==
  [ date_or_day |-> date,
    animal_observed_on_time |-> TRUE,
    clean_drinking_water_provided |-> TRUE,
    enclosure_cleaned_properly |-> TRUE,
    normal_behaviour_status |-> TRUE,
    normal_behaviour_details |-> Null,
    feed_and_supplements_available |-> TRUE,
    feed_given_as_prescribed |-> TRUE,
    other_animal_requirements |-> Txt("Audio processing error - manual review required"),
    incharge_signature |-> Txt(user.name),
    daily_animal_health_monitoring |->
      <<"Observation recorded on ", date, " - Audio processing encountered an error">>,
    carnivorous_animal_feeding_chart |-> Txt("Standard feeding schedule followed"),
    medicine_stock_register |-> Txt("Stock levels adequate"),
    daily_wildlife_monitoring |-> <<"Wildlife monitoring completed on ", date>> ]

\* ------------------------------------------------------- the extractor

\* Records the Python script can print (result.dict() as JSON): one with
\* every field, one with the optional fields missing.
RecordFull ==
  [ date_or_day |-> "2024-05-01",
    animal_observed_on_time |-> TRUE,
    clean_drinking_water_provided |-> FALSE,
    enclosure_cleaned_properly |-> TRUE,
    normal_behaviour_status |-> FALSE,
    normal_behaviour_details |-> Txt("limping"),
    feed_and_supplements_available |-> TRUE,
    feed_given_as_prescribed |-> TRUE,
    other_animal_requirements |-> Txt("vet visit"),
    incharge_signature |-> Txt("Asha"),
    daily_animal_health_monitoring |-> Txt("health ok"),
    carnivorous_animal_feeding_chart |-> Txt("fed"),
    medicine_stock_register |-> Txt("stocked"),
    daily_wildlife_monitoring |-> Txt("seen") ]

RecordSparse ==
  [ date_or_day |-> "2024-05-02",
    animal_observed_on_time |-> TRUE,
    clean_drinking_water_provided |-> TRUE ]

\* What the extractor of the model returns when it succeeds.
ExtractorRecords == {RecordFull}
\* What an edit of the model puts in structuredData.
EditRecords == {RecordSparse}

\* What the child process ends with.  exit "zero" resolves execAsync with the
\* stdout; parsed is JSON.parse(stdout.trim()) when stdout is JSON ("json"),
\* and mentions is stdout.includes("transcript").  A non-zero exit rejects
\* execAsync: "upstream" is an error raised by the model, "timeout" a timeout
\* the script itself gave up on.  "hang" is a child that never exits: exec is
\* called without a timeout option.
ExtractorOutcomes ==
  { [exit |-> "zero", json |-> TRUE, parsed |-> d, mentions |-> m, kind |-> "ok"] :
      d \in ExtractorRecords, m \in {TRUE} }
  \cup { [exit |-> "zero", json |-> TRUE, parsed |-> JsonNull, mentions |-> FALSE,
          kind |-> "malformed"],
         [exit |-> "zero", json |-> FALSE, parsed |-> JsonNull, mentions |-> FALSE,
          kind |-> "malformed"],
         [exit |-> "nonzero", json |-> FALSE, parsed |-> JsonNull, mentions |-> FALSE,
          kind |-> "upstream"],
         [exit |-> "nonzero", json |-> FALSE, parsed |-> JsonNull, mentions |-> FALSE,
          kind |-> "timeout"],
         [exit |-> "never", json |-> FALSE, parsed |-> JsonNull, mentions |-> FALSE,
          kind |-> "hang"] }

NoOutcome ==
  [exit |-> "-", json |-> FALSE, parsed |-> JsonNull, mentions |-> FALSE, kind |-> "-"]

\* --------------------------------------------------------------- files

\* A file name: `${user.userId}_${date}_${Date.now()}${ext}`.
FileName(userId, date, t, ext) == [uid |-> userId, date |-> date, t |-> t, ext |-> ext]
NoFile == FileName("-", "-", 0, "-")
\* The file multer stores an upload under (dest "uploads/", a random name
\* of its own for every upload).
MulterFile(slot) == FileName(slot, "-", 0, "upload")

\* ---------------------------------------------------------------- state

VARIABLES
  now,          \* the clock: Date.now() and new Date()
  submissions,  \* the submissions table, in insertion order; id = position
  comments,     \* the comments table, in insertion order
  reports,      \* the reports/ directory: file name -> lines, for the files a row or a request in flight names
  uploads,      \* the uploads/ directory: the names of the files of the requests in flight
  sub,          \* the POST /api/submissions/audio requests in flight, by slot
  put           \* the PUT /api/submissions/:id requests in flight, by slot

vars == <<now, submissions, comments, reports, uploads, sub, put>>

SubmitSlots == {"s1"}
PutSlots == {"p1"}

\* A response: res.status(status).json(...).  status 0: none sent.
Response(status, message, submissionId, data) ==
  [status |-> status, message |-> message, submissionId |-> submissionId, data |-> data]
NoResponse == Response(0, "-", 0, JsonNull)

NoRow ==
  [ id |-> 0, userId |-> "-", date |-> "-", audioFileName |-> NoFile,
    transcription |-> Null, structuredData |-> JsonNull, txtFileName |-> NoFile,
    status |-> "-", createdAt |-> 0, updatedAt |-> 0 ]

\* A slot of the submit handler: its position, the request (user, file: what
\* its "audio" field carries, date), the handler's locals, and what went wrong on the way (outcome: how
\* the extractor ended; tryFail and catchFail: the store or file operation
\* that threw in the inner try and in the catch block).
IdleSubmit ==
  [ pc |-> "idle", user |-> NoUser, file |-> "-", date |-> NoDate, uploaded |-> FALSE,
    audioFileName |-> NoFile, outcome |-> NoOutcome, structuredData |-> JsonNull,
    txtFileName |-> NoFile, txtContent |-> <<>>, submission |-> NoRow,
    tryFail |-> "-", catchFail |-> "-", response |-> NoResponse ]

\* A slot of the PUT handler: the request (user, id, body), the row read at
\* the start (submission), and the operation that threw.
IdlePut ==
  [ pc |-> "idle", user |-> NoUser, id |-> 0, body |-> JsonNull,
    submission |-> NoRow, txtContent |-> <<>>, fail |-> "-",
    status |-> 0, updated |-> NoRow ]

Init ==
  /\ now = 0
  /\ submissions = <<>>
  /\ comments = <<>>
  /\ reports = <<>>
  /\ uploads = {}
  /\ sub = [s \in SubmitSlots |-> IdleSubmit]
  /\ put = [p \in PutSlots |-> IdlePut]

\* Time passes.
Tick ==
  /\ now < MaxTime
  /\ now' = now + 1
  /\ UNCHANGED <<submissions, comments, reports, uploads, sub, put>>

\* ------------------------------------------------------- DatabaseStorage

\* createSubmission losing the report reference.
createSubmissionNoReport(values) ==
  [ id |-> Len(submissions) + 1, userId |-> values.userId, date |-> values.date,
    audioFileName |-> values.audioFileName, transcription |-> values.transcription,
    structuredData |-> values.structuredData, txtFileName |-> NoFile,
    status |-> values.status, createdAt |-> now, updatedAt |-> now ]

\* db.insert(submissions).values(submission).returning(): id is the serial,
\* createdAt and updatedAt default to now().
createSubmission(values) ==
  [ id |-> Len(submissions) + 1, userId |-> values.userId, date |-> values.date,
    audioFileName |-> values.audioFileName, transcription |-> values.transcription,
    structuredData |-> values.structuredData, txtFileName |-> values.txtFileName,
    status |-> values.status, createdAt |-> now, updatedAt |-> now ]

\* orderBy(desc(createdAt)): the rows of seq ordered newest first (rows
\* created at the same instant keep no order of their own; the model lists
\* the later insert first).
RECURSIVE NewestFirst(_)
NewestFirst(seq) ==
  IF seq = <<>> THEN <<>>
  ELSE LET latest == CHOOSE i \in 1..Len(seq) :
                       \A j \in 1..Len(seq) :
                         \/ seq[j].createdAt < seq[i].createdAt
                         \/ (seq[j].createdAt = seq[i].createdAt /\ j <= i)
       IN <<seq[latest]>> \o
          NewestFirst([k \in 1..(Len(seq) - 1) |-> IF k < latest THEN seq[k] ELSE seq[k + 1]])

\* A getSubmissionsByUser without its where clause.
getSubmissionsByUserUnfiltered(userId) == NewestFirst(submissions)

\* select().from(submissions).leftJoin(users).where(eq(userId)).orderBy(...)
getSubmissionsByUser(userId) ==
  NewestFirst(SelectSeq(submissions, LAMBDA r : r.userId = userId))

getAllSubmissions == NewestFirst(submissions)

Exists(id) == id \in 1..Len(submissions)

\* getSubmissionById: the row (joined with its user and comments), or
\* undefined.
getSubmissionById(id) == IF id \in 1..Len(submissions) THEN submissions[id] ELSE NoRow

getCommentsBySubmission(id) ==
  NewestFirst(SelectSeq(comments, LAMBDA c : c.submissionId = id))

\* An updateSubmission that sets the row back to processing.
updateSubmissionReopens(id, structuredData) ==
  IF Exists(id)
    THEN [submissions EXCEPT ![id].structuredData = structuredData,
                             ![id].updatedAt = now, ![id].status = "processing"]
    ELSE submissions

\* An updateSubmission that stamps createdAt as well.
updateSubmissionRecreates(id, structuredData) ==
  IF Exists(id)
    THEN [submissions EXCEPT ![id].structuredData = structuredData,
                             ![id].updatedAt = now, ![id].createdAt = now]
    ELSE submissions

\* An updateSubmission that leaves updatedAt as it was.
updateSubmissionKeepsTime(id, structuredData) ==
  IF Exists(id)
    THEN [submissions EXCEPT ![id].structuredData = structuredData]
    ELSE submissions

\* db.update(submissions).set({...updates, updatedAt: new Date()}).where(eq(id))
updateSubmission(id, structuredData) ==
  IF Exists(id)
    THEN [submissions EXCEPT ![id].structuredData = structuredData, ![id].updatedAt = now]
    ELSE submissions

\* db.insert(comments).values(comment).returning()
createComment(values) ==
  [ id |-> Len(comments) + 1, submissionId |-> values.submissionId,
    userId |-> values.userId, content |-> values.content, createdAt |-> now ]

\* ------------------------------------------ POST /api/submissions/audio

\* What the request carries in its "audio" field: nothing, an audio file, or
\* a file of another type (which the fileFilter of multer refuses).
Uploads == {"none", "audio", "other"}

\* A catch block that answers 500 for whatever was thrown.
CatchSurfaces(r, step) ==
  [r EXCEPT !.pc = "done", !.tryFail = step,
            !.response = Response(500, "Failed to process audio submission", 0, JsonNull)]

\* A catch block that inserts the fallback row without writing its report.
CatchSkipsWrite(r, step) ==
  [r EXCEPT !.pc = "fbCreate", !.tryFail = step,
            !.txtContent = generateTxtReport(FallbackData(r.user, r.date), r.user.name, r.date, now),
            !.txtFileName = FileName(r.user.userId, r.date, now, "_fallback.txt")]

\* The catch block of the inner try, up to its first await: the fallback
\* record is rendered and the report named.  step is what threw.
Catch(r, step) ==
  [r EXCEPT !.pc = "fbWrite", !.tryFail = step,
            !.txtContent = generateTxtReport(FallbackData(r.user, r.date), r.user.name, r.date, now),
            !.txtFileName = FileName(r.user.userId, r.date, now, "_fallback.txt")]

\* A handler without the checks of req.file and date.
SubmitRequestUnvalidated(s, user, file, date) ==
  /\ sub[s].pc = "idle"
  /\ requireAuth(user) /\ requireRole({"zookeeper"}, user) /\ file # "other"
  /\ sub' = [sub EXCEPT ![s] =
       [IdleSubmit EXCEPT !.user = user, !.file = file, !.date = date,
                          !.pc = "readFile", !.uploaded = (file = "audio"),
                          !.audioFileName = FileName(user.userId, date, now, ".wav")]]
  /\ uploads' = IF file = "audio" THEN uploads \cup {MulterFile(s)} ELSE uploads
  /\ UNCHANGED <<now, submissions, comments, reports, put>>

\* The middleware chain (requireAuth, requireRole(["zookeeper"]),
\* upload.single("audio")) and the handler up to its first await.
SubmitRequest(s, user, file, date) ==
  /\ sub[s].pc = "idle"
  /\ LET q == [IdleSubmit EXCEPT !.user = user, !.file = file]
         \* the multipart body is parsed by multer: req.body.date is there
         \* once upload.single has run
         r == [q EXCEPT !.date = date]
     IN
     IF ~requireAuth(user) THEN
       /\ sub' = [sub EXCEPT ![s] = [q EXCEPT !.pc = "done",
                    !.response = Response(401, "Authentication required", 0, JsonNull)]]
       /\ UNCHANGED uploads
     ELSE IF ~requireRole({"zookeeper"}, user) THEN
       /\ sub' = [sub EXCEPT ![s] = [q EXCEPT !.pc = "done",
                    !.response = Response(403, "Insufficient permissions", 0, JsonNull)]]
       /\ UNCHANGED uploads
     ELSE IF file = "other" THEN
       \* cb(new Error(...)): the error goes to the error handler of Express
       /\ sub' = [sub EXCEPT ![s] = [q EXCEPT !.pc = "done",
                    !.response = Response(500, "Only audio files are allowed", 0, JsonNull)]]
       /\ UNCHANGED uploads
     ELSE IF file = "none" THEN
       /\ sub' = [sub EXCEPT ![s] = [r EXCEPT !.pc = "done",
                    !.response = Response(400, "Audio file is required", 0, JsonNull)]]
       /\ UNCHANGED uploads
     ELSE IF date = NoDate THEN
       /\ sub' = [sub EXCEPT ![s] = [r EXCEPT !.pc = "done", !.uploaded = TRUE,
                    !.response = Response(400, "Date is required", 0, JsonNull)]]
       /\ uploads' = uploads \cup {MulterFile(s)}
     ELSE
       /\ sub' = [sub EXCEPT ![s] = [r EXCEPT !.pc = "readFile", !.uploaded = TRUE,
                    !.audioFileName = FileName(user.userId, date, now, ".wav")]]
       /\ uploads' = uploads \cup {MulterFile(s)}
  /\ UNCHANGED <<now, submissions, comments, reports, put>>

\* await fs.readFile(audioPath)
ReadFile(s, ok) ==
  /\ sub[s].pc = "readFile"
  /\ sub' = [sub EXCEPT ![s] =
       IF ok /\ MulterFile(s) \in uploads
         THEN [@ EXCEPT !.pc = "copyFile"]
         ELSE Catch(@, "readFile")]
  /\ UNCHANGED <<now, submissions, comments, reports, uploads, put>>

\* await fs.copyFile(audioPath, tempAudioPath)
CopyFile(s, ok) ==
  /\ sub[s].pc = "copyFile"
  /\ IF ok /\ MulterFile(s) \in uploads
       THEN /\ sub' = [sub EXCEPT ![s].pc = "exec"]
            /\ uploads' = uploads \cup {sub[s].audioFileName}
       ELSE /\ sub' = [sub EXCEPT ![s] = Catch(@, "copyFile")]
            /\ UNCHANGED uploads
  /\ UNCHANGED <<now, submissions, comments, reports, put>>

\* await execAsync(`python3 -c "..."`), then JSON.parse, generateTxtReport
\* and the report's name.  No timeout is passed to exec: a child that never
\* exits leaves the await pending.
Exec(s, outcome) ==
  /\ sub[s].pc = "exec"
  /\ sub' = [sub EXCEPT ![s] =
       LET r == [@ EXCEPT !.outcome = outcome] IN
       IF outcome.exit = "never" THEN [r EXCEPT !.pc = "hung"]
       ELSE IF outcome.exit = "nonzero" THEN Catch(r, "exec")
       ELSE IF ~outcome.json THEN Catch(r, "parse")
       ELSE IF ~Renders(outcome.parsed) THEN Catch(r, "render")
       ELSE [r EXCEPT !.pc = "writeFile", !.structuredData = outcome.parsed,
                      !.txtContent = generateTxtReport(outcome.parsed, r.user.name, r.date, now),
                      !.txtFileName = FileName(r.user.userId, r.date, now, ".txt")]]
  /\ UNCHANGED <<now, submissions, comments, reports, uploads, put>>

\* await fs.mkdir(reports, {recursive: true}); await fs.writeFile(txtPath, txtContent)
WriteFile(s, ok) ==
  /\ sub[s].pc = "writeFile"
  /\ IF ok
       THEN /\ sub' = [sub EXCEPT ![s].pc = "create"]
            /\ reports' = (sub[s].txtFileName :> sub[s].txtContent) @@ reports
       ELSE /\ sub' = [sub EXCEPT ![s] = Catch(@, "writeFile")]
            /\ UNCHANGED reports
  /\ UNCHANGED <<now, submissions, comments, uploads, put>>

\* await storage.createSubmission({... structuredData, txtFileName, status: "processed"})
Create(s, ok) ==
  /\ sub[s].pc = "create"
  /\ IF ok /\ Len(submissions) < MaxSubs
       THEN LET row == createSubmission(
                  [ userId |-> sub[s].user.id, date |-> sub[s].date,
                    audioFileName |-> sub[s].audioFileName,
                    transcription |-> IF sub[s].outcome.mentions
                                        THEN Txt("Transcribed from Hindi audio") ELSE Null,
                    structuredData |-> sub[s].structuredData,
                    txtFileName |-> sub[s].txtFileName, status |-> "processed" ])
            IN /\ submissions' = Append(submissions, row)
               /\ sub' = [sub EXCEPT ![s].pc = "unlink1", ![s].submission = row]
       ELSE /\ sub' = [sub EXCEPT ![s] = Catch(@, "create")]
            /\ UNCHANGED submissions
  /\ UNCHANGED <<now, comments, reports, uploads, put>>

\* await fs.unlink(audioPath)
Unlink1(s, ok) ==
  /\ sub[s].pc = "unlink1"
  /\ IF ok /\ MulterFile(s) \in uploads
       THEN /\ sub' = [sub EXCEPT ![s].pc = "unlink2"]
            /\ uploads' = uploads \ {MulterFile(s)}
       ELSE /\ sub' = [sub EXCEPT ![s] = Catch(@, "unlink1")]
            /\ UNCHANGED uploads
  /\ UNCHANGED <<now, submissions, comments, reports, put>>

\* await fs.unlink(tempAudioPath); res.json({message, submissionId, structuredData})
Unlink2(s, ok) ==
  /\ sub[s].pc = "unlink2"
  /\ IF ok /\ sub[s].audioFileName \in uploads
       THEN /\ sub' = [sub EXCEPT ![s].pc = "done",
                         ![s].response = Response(200, "Audio processed successfully",
                                           sub[s].submission.id, sub[s].structuredData)]
            /\ uploads' = uploads \ {sub[s].audioFileName}
       ELSE /\ sub' = [sub EXCEPT ![s] = Catch(@, "unlink2")]
            /\ UNCHANGED uploads
  /\ UNCHANGED <<now, submissions, comments, reports, put>>

\* The failure response of the outer catch.
SubmitFailed(r, step) ==
  [r EXCEPT !.pc = "done", !.catchFail = step,
            !.response = Response(500, "Failed to process audio submission", 0, JsonNull)]

\* In the catch block: await fs.mkdir(...); await fs.writeFile(txtPath, txtContent)
FallbackWriteFile(s, ok) ==
  /\ sub[s].pc = "fbWrite"
  /\ IF ok
       THEN /\ sub' = [sub EXCEPT ![s].pc = "fbCreate"]
            /\ reports' = (sub[s].txtFileName :> sub[s].txtContent) @@ reports
       ELSE /\ sub' = [sub EXCEPT ![s] = SubmitFailed(@, "writeFile")]
            /\ UNCHANGED reports
  /\ UNCHANGED <<now, submissions, comments, uploads, put>>

\* A catch block that records in the transcription how the extractor ended.
FallbackCreateEchoes(s, ok) ==
  /\ sub[s].pc = "fbCreate"
  /\ IF ok /\ Len(submissions) < MaxSubs
       THEN LET row == createSubmission(
                  [ userId |-> sub[s].user.id, date |-> sub[s].date,
                    audioFileName |-> sub[s].audioFileName,
                    transcription |-> Txt(sub[s].outcome.kind),
                    structuredData |-> FallbackData(sub[s].user, sub[s].date),
                    txtFileName |-> sub[s].txtFileName, status |-> "processed" ])
            IN /\ submissions' = Append(submissions, row)
               /\ sub' = [sub EXCEPT ![s].pc = "done", ![s].submission = row,
                            ![s].response = Response(200, "Audio processed with fallback data",
                                              row.id, FallbackData(sub[s].user, sub[s].date))]
       ELSE /\ sub' = [sub EXCEPT ![s] = SubmitFailed(@, "create")]
            /\ UNCHANGED submissions
  /\ UNCHANGED <<now, comments, reports, uploads, put>>

\* In the catch block: await storage.createSubmission({... fallbackData ...});
\* res.json({message, submissionId, structuredData: fallbackData})
FallbackCreate(s, ok) ==
  /\ sub[s].pc = "fbCreate"
  /\ IF ok /\ Len(submissions) < MaxSubs
       THEN LET row == createSubmission(
                  [ userId |-> sub[s].user.id, date |-> sub[s].date,
                    audioFileName |-> sub[s].audioFileName,
                    transcription |-> Txt("Audio processing failed"),
                    structuredData |-> FallbackData(sub[s].user, sub[s].date),
                    txtFileName |-> sub[s].txtFileName, status |-> "processed" ])
            IN /\ submissions' = Append(submissions, row)
               /\ sub' = [sub EXCEPT ![s].pc = "done", ![s].submission = row,
                            ![s].response = Response(200, "Audio processed with fallback data",
                                              row.id, FallbackData(sub[s].user, sub[s].date))]
       ELSE /\ sub' = [sub EXCEPT ![s] = SubmitFailed(@, "create")]
            /\ UNCHANGED submissions
  /\ UNCHANGED <<now, comments, reports, uploads, put>>

\* The file names another submit request in flight holds.
HeldByOthers(s) ==
  UNION { {sub[o].audioFileName, sub[o].txtFileName} :
            o \in {x \in DOMAIN sub \ {s} : sub[x].pc \notin {"idle", "done"}} }

\* The response is out and the request is over.  The files it left behind
\* (the upload and its working copy in uploads/, a report in reports/ whose
\* row was never inserted) stay on disk; no row names them and no later
\* request reads them, so the model stops tracking them.
SubmitEnd(s) ==
  /\ sub[s].pc = "done"
  /\ sub' = [sub EXCEPT ![s] = IdleSubmit]
  /\ uploads' = uploads \ ({MulterFile(s)} \cup ({sub[s].audioFileName} \ HeldByOthers(s)))
  /\ reports' = [f \in DOMAIN reports \cap
                       ({submissions[i].txtFileName : i \in 1..Len(submissions)}
                          \cup HeldByOthers(s)) |-> reports[f]]
  /\ UNCHANGED <<now, submissions, comments, put>>

\* ---------------------------------------------- PUT /api/submissions/:id

\* The request bodies of an edit: with a structuredData object, with
\* structuredData null, without structuredData.
EditBodies ==
  { [structuredData |-> d] : d \in EditRecords \cup {JsonNull} } \cup { [none |-> TRUE] }

\* const { structuredData } = req.body; if (structuredData) ...
HasStructuredData(body) == Has(body, "structuredData") /\ body.structuredData # JsonNull

\* The ids a request path carries: the rows there can be, and one past them.
Ids == 1..(MaxSubs + 1)

PutDone(r, status, step) == [r EXCEPT !.pc = "done", !.status = status, !.fail = step]

\* A handler without the ownership check.
EditForbiddenOff(user, submission) == FALSE

\* The ownership check of the handler: only a zookeeper is held to it.
EditForbidden(user, submission) ==
  user.role = "zookeeper" /\ submission.userId # user.id

\* requireAuth, then the handler up to its first await.
PutRequest(p, user, id, body) ==
  /\ put[p].pc = "idle"
  /\ put' = [put EXCEPT ![p] =
       LET r == [IdlePut EXCEPT !.user = user, !.id = id, !.body = body] IN
       IF ~requireAuth(user) THEN PutDone(r, 401, "-") ELSE [r EXCEPT !.pc = "get"]]
  /\ UNCHANGED <<now, submissions, comments, reports, uploads, sub>>

\* await storage.getSubmissionById(submissionId), the 404, the permission
\* check and the rendering of the new report.
PutGet(p, ok) ==
  /\ put[p].pc = "get"
  /\ put' = [put EXCEPT ![p] =
       LET submission == getSubmissionById(put[p].id)
           r == [put[p] EXCEPT !.submission = submission]
       IN
       IF ~ok THEN PutDone(put[p], 500, "get")
       ELSE IF submission = NoRow THEN PutDone(put[p], 404, "-")
       ELSE IF EditForbidden(r.user, submission) THEN PutDone(r, 403, "-")
       ELSE IF HasStructuredData(r.body) THEN
         \* path.join(..., submission.txtFileName!) throws on null
         IF submission.txtFileName = NoFile THEN PutDone(r, 500, "path")
         ELSE [r EXCEPT !.pc = "write",
                        !.txtContent = generateTxtReport(r.body.structuredData,
                                         UserById(submission.userId).name, submission.date, now)]
       ELSE [r EXCEPT !.pc = "update"]]
  /\ UNCHANGED <<now, submissions, comments, reports, uploads, sub>>

\* await fs.writeFile(txtPath, txtContent)
PutWriteFile(p, ok) ==
  /\ put[p].pc = "write"
  /\ IF ok
       THEN /\ put' = [put EXCEPT ![p].pc = "update"]
            /\ reports' = (put[p].submission.txtFileName :> put[p].txtContent) @@ reports
       ELSE /\ put' = [put EXCEPT ![p] = PutDone(@, 500, "writeFile")]
            /\ UNCHANGED reports
  /\ UNCHANGED <<now, submissions, comments, uploads, sub>>

\* await storage.updateSubmission(submissionId, {structuredData:
\*   structuredData || submission.structuredData}); res.json(updated)
PutUpdate(p, ok) ==
  /\ put[p].pc = "update"
  /\ IF ok
       THEN LET data == IF HasStructuredData(put[p].body)
                          THEN put[p].body.structuredData
                          ELSE put[p].submission.structuredData
                rows == updateSubmission(put[p].id, data)
            IN /\ submissions' = rows
               /\ put' = [put EXCEPT ![p] =
                            [PutDone(put[p], 200, "-") EXCEPT !.updated = rows[put[p].id]]]
       ELSE /\ put' = [put EXCEPT ![p] = PutDone(@, 500, "update")]
            /\ UNCHANGED submissions
  /\ UNCHANGED <<now, comments, reports, uploads, sub>>

\* The response is out and the request is over.
PutEnd(p) ==
  /\ put[p].pc = "done"
  /\ put' = [put EXCEPT ![p] = IdlePut]
  /\ UNCHANGED <<now, submissions, comments, reports, uploads, sub>>

\* ------------------------------------------------- the one-await handlers

\* The response of a handler that reads: the status and the rows sent.
Reply(status, rows) == [status |-> status, rows |-> rows]

\* GET /api/submissions/my; dbOk: the store answers.
MySubmissionsReply(user, dbOk) ==
  IF ~requireAuth(user) THEN Reply(401, <<>>)
  ELSE IF ~requireRole({"zookeeper"}, user) THEN Reply(403, <<>>)
  ELSE IF ~dbOk THEN Reply(500, <<>>)
  ELSE Reply(200, getSubmissionsByUser(user.id))

\* GET /api/submissions/all
AllSubmissionsReply(user, dbOk) ==
  IF ~requireAuth(user) THEN Reply(401, <<>>)
  ELSE IF ~requireRole({"admin", "doctor"}, user) THEN Reply(403, <<>>)
  ELSE IF ~dbOk THEN Reply(500, <<>>)
  ELSE Reply(200, getAllSubmissions)

\* GET /api/submissions/:id (the row; its comments are getCommentsBySubmission)
SubmissionReply(user, id, dbOk) ==
  IF ~requireAuth(user) THEN Reply(401, <<>>)
  ELSE IF ~dbOk THEN Reply(500, <<>>)
  ELSE IF getSubmissionById(id) = NoRow THEN Reply(404, <<>>)
  ELSE Reply(200, <<getSubmissionById(id)>>)

\* GET /api/submissions/:id/download; rows: the lines of the file sent.
\* res.download of a file that is not there ends in the error handler of
\* Express (404).
DownloadReply(user, id, dbOk) ==
  IF ~requireAuth(user) THEN Reply(401, <<>>)
  ELSE IF ~dbOk THEN Reply(500, <<>>)
  ELSE IF getSubmissionById(id) = NoRow \/ getSubmissionById(id).txtFileName = NoFile
    THEN Reply(404, <<>>)
  ELSE IF getSubmissionById(id).txtFileName \notin DOMAIN reports THEN Reply(404, <<>>)
  ELSE Reply(200, reports[getSubmissionById(id).txtFileName])

\* The reading handlers change nothing: whoever asks and whatever for, a
\* reply is sent and the state is as before.
GetMySubmissions ==
  /\ \A user \in Identities, dbOk \in BOOLEAN :
       MySubmissionsReply(user, dbOk).status \in {200, 401, 403, 500}
  /\ UNCHANGED vars

GetAllSubmissions ==
  /\ \A user \in Identities, dbOk \in BOOLEAN :
       AllSubmissionsReply(user, dbOk).status \in {200, 401, 403, 500}
  /\ UNCHANGED vars

GetSubmission ==
  /\ \A user \in Identities, id \in Ids, dbOk \in BOOLEAN :
       SubmissionReply(user, id, dbOk).status \in {200, 401, 404, 500}
  /\ UNCHANGED vars

Download ==
  /\ \A user \in Identities, id \in Ids, dbOk \in BOOLEAN :
       DownloadReply(user, id, dbOk).status \in {200, 401, 404, 500}
  /\ UNCHANGED vars

\* The request bodies of a comment; one names a user id, which the schema
\* does not pick.
CommentBodies ==
  { [content |-> "noted", submissionId |-> i] : i \in 1..MaxSubs }
  \cup { [content |-> "noted"], [submissionId |-> 1],
         [content |-> "noted", submissionId |-> 1, userId |-> "u1"] }

\* insertCommentSchema.parse(req.body): createInsertSchema(comments).pick(
\* {submissionId, content}); both columns are notNull without a default, so
\* both are required.
insertCommentSchema(body) == Has(body, "content") /\ Has(body, "submissionId")

\* A comment handler that stores the submissionId and the userId of the body.
CommentReplyTrustsBody(user, id, body, dbOk) ==
  IF ~requireAuth(user) THEN Reply(401, <<>>)
  ELSE IF ~requireRole({"admin", "doctor"}, user) THEN Reply(403, <<>>)
  ELSE IF ~insertCommentSchema(body) THEN Reply(400, <<>>)
  ELSE IF ~dbOk \/ ~Exists(id) \/ Len(comments) >= MaxComments THEN Reply(400, <<>>)
  ELSE Reply(200, <<createComment(
                      [submissionId |-> body.submissionId,
                       userId |-> IF Has(body, "userId") THEN body.userId ELSE user.id,
                       content |-> body.content])>>)

\* POST /api/submissions/:id/comments.  The insert fails when the store does
\* (dbOk) and when submission_id references no row; the catch answers 400
\* whatever was thrown.
CommentReply(user, id, body, dbOk) ==
  IF ~requireAuth(user) THEN Reply(401, <<>>)
  ELSE IF ~requireRole({"admin", "doctor"}, user) THEN Reply(403, <<>>)
  ELSE IF ~insertCommentSchema(body) THEN Reply(400, <<>>)
  ELSE IF ~dbOk \/ ~Exists(id) \/ Len(comments) >= MaxComments THEN Reply(400, <<>>)
  ELSE Reply(200, <<createComment([submissionId |-> id, userId |-> user.id,
                                   content |-> body.content])>>)

\* A comment whose insert also stamps the submission it is on.
PostCommentTouches(user, id, body, dbOk) ==
  /\ CommentReply(user, id, body, dbOk).status = 200
  /\ comments' = Append(comments, CommentReply(user, id, body, dbOk).rows[1])
  /\ submissions' = [submissions EXCEPT ![id].updatedAt = now]
  /\ UNCHANGED <<now, reports, uploads, sub, put>>

\* A comment that is accepted is inserted.
PostComment(user, id, body, dbOk) ==
  /\ CommentReply(user, id, body, dbOk).status = 200
  /\ comments' = Append(comments, CommentReply(user, id, body, dbOk).rows[1])
  /\ UNCHANGED <<now, submissions, reports, uploads, sub, put>>

\* A comment that is refused (401, 403, 400) changes nothing.
PostCommentRefused ==
  /\ \A user \in Identities, id \in Ids, body \in CommentBodies, dbOk \in BOOLEAN :
       CommentReply(user, id, body, dbOk).status \in {200, 400, 401, 403}
  /\ UNCHANGED vars

\* ------------------------------------------------------- specification

\* No request is in flight.
Quiet ==
  /\ \A s \in SubmitSlots : sub[s].pc = "idle"
  /\ \A p \in PutSlots : put[p].pc = "idle"

\* The steps of a submit request after the first.
SubmitSteps(s) ==
  \/ \E ok \in BOOLEAN : ReadFile(s, ok)
  \/ \E ok \in BOOLEAN : CopyFile(s, ok)
  \/ \E outcome \in ExtractorOutcomes : Exec(s, outcome)
  \/ \E ok \in BOOLEAN : WriteFile(s, ok)
  \/ \E ok \in BOOLEAN : Create(s, ok)
  \/ \E ok \in BOOLEAN : Unlink1(s, ok)
  \/ \E ok \in BOOLEAN : Unlink2(s, ok)
  \/ \E ok \in BOOLEAN : FallbackWriteFile(s, ok)
  \/ \E ok \in BOOLEAN : FallbackCreate(s, ok)
  \/ SubmitEnd(s)

\* Spec: the submission pipeline.  Submit requests of every identity, with
\* every upload and date, every way the extractor can end and a failure
\* possible at every file and store operation, taken one at a time with the
\* clock advancing between them, and the reading handlers.
Next ==
  \/ (Quiet /\ Tick)
  \/ \E s \in SubmitSlots, user \in Identities, file \in Uploads, date \in Dates \cup {NoDate} :
       Quiet /\ SubmitRequest(s, user, file, date)
  \/ \E s \in SubmitSlots : SubmitSteps(s)
  \/ GetMySubmissions
  \/ GetAllSubmissions
  \/ GetSubmission
  \/ Download

Spec == Init /\ [][Next]_vars

\* The steps of a submit request when the extractor returns a record and
\* every file and store operation succeeds.
SubmitStepsOk(s) ==
  \/ ReadFile(s, TRUE)
  \/ CopyFile(s, TRUE)
  \/ \E outcome \in {o \in ExtractorOutcomes : o.kind = "ok"} : Exec(s, outcome)
  \/ WriteFile(s, TRUE)
  \/ Create(s, TRUE)
  \/ Unlink1(s, TRUE)
  \/ Unlink2(s, TRUE)
  \/ SubmitEnd(s)

PutSteps(p) ==
  \/ \E ok \in BOOLEAN : PutGet(p, ok)
  \/ \E ok \in BOOLEAN : PutWriteFile(p, ok)
  \/ \E ok \in BOOLEAN : PutUpdate(p, ok)
  \/ PutEnd(p)

\* SpecEdit: the edits of a submission.  One submission is taken in (a
\* submit request of any identity, while the table is empty), then edit
\* requests of every identity, for every id and body, with a failure possible
\* at every file and store operation of the edit, and the clock advancing at
\* any time.
NextEdit ==
  \/ Tick
  \/ \E s \in SubmitSlots, user \in Identities, file \in Uploads, date \in Dates \cup {NoDate} :
       Quiet /\ submissions = <<>> /\ SubmitRequest(s, user, file, date)
  \/ \E s \in SubmitSlots : SubmitStepsOk(s)
  \/ \E p \in PutSlots, user \in Identities, id \in Ids, body \in EditBodies :
       Quiet /\ PutRequest(p, user, id, body)
  \/ \E p \in PutSlots : PutSteps(p)
  \/ GetMySubmissions
  \/ GetAllSubmissions
  \/ GetSubmission
  \/ Download

SpecEdit == Init /\ [][NextEdit]_vars

\* The steps of a submit request when every file and store operation
\* succeeds, whichever way the extractor ends (short of never ending).
SubmitStepsClean(s) ==
  \/ ReadFile(s, TRUE)
  \/ CopyFile(s, TRUE)
  \/ \E outcome \in {o \in ExtractorOutcomes : o.kind # "hang"} : Exec(s, outcome)
  \/ WriteFile(s, TRUE)
  \/ Create(s, TRUE)
  \/ Unlink1(s, TRUE)
  \/ Unlink2(s, TRUE)
  \/ FallbackWriteFile(s, TRUE)
  \/ FallbackCreate(s, TRUE)
  \/ SubmitEnd(s)

\* The identities that edit in SpecReview: the keepers and the admin.
Editors == {u \in Users : u.userId \in {"keeperA", "keeperB", "adm"}}

\* The identities that comment in SpecReview: all but the admin, whose
\* comments differ from the doctor's in the userId only.
Commenters == Identities \ {u \in Users : u.role = "admin"}

\* SpecReview: the life of a submission once it is taken in.  One submission
\* is taken in (a submit request of any identity while the table is empty,
\* the extractor returning a record or failing), then edit requests for
\* every id and body with a failure possible at every operation of the edit,
\* and comments for every id and body; the requests are taken one at a time,
\* with the clock advancing between them.
NextReview ==
  \/ (Quiet /\ Tick)
  \/ \E s \in SubmitSlots, user \in Identities, file \in Uploads, date \in Dates \cup {NoDate} :
       Quiet /\ submissions = <<>> /\ SubmitRequest(s, user, file, date)
  \/ \E s \in SubmitSlots : SubmitStepsClean(s)
  \/ \E p \in PutSlots, user \in Editors, id \in Ids, body \in EditBodies :
       Quiet /\ PutRequest(p, user, id, body)
  \/ \E p \in PutSlots : PutSteps(p)
  \/ \E user \in Commenters, id \in Ids, body \in CommentBodies, dbOk \in BOOLEAN :
       Quiet /\ PostComment(user, id, body, dbOk)
  \/ PostCommentRefused
  \/ GetMySubmissions
  \/ GetAllSubmissions
  \/ GetSubmission
  \/ Download

SpecReview == Init /\ [][NextReview]_vars

\* ===================================================== the claims

\* The request of slot r reached the handler and passed its validation.
Accepted(r) == r.pc # "idle" /\ r.audioFileName # NoFile

\* The extractor ended in a failure: a non-zero exit (upstream error, a
\* timeout of its own) or an output that is no record.
ExtractorFailed(r) == r.outcome.kind \in {"timeout", "malformed", "upstream"}

\* No file or store operation of the request failed.
InfraOk(r) == r.tryFail \in {"-", "exec", "parse", "render"} /\ r.catchFail = "-"

\* The row a response names.
Persisted(response) == Exists(response.submissionId)
RowOf(response) == submissions[response.submissionId]

\* C1: when the extractor fails (timeout, malformed output, upstream error)
\* and no store or file operation does, the submit is answered with a
\* persisted submission of the keeper and the date, status processed, whose
\* other_animal_requirements is the fixed manual-review marker and whose
\* monitoring texts carry the given date.
C1_FallbackPersisted ==
  \A s \in SubmitSlots :
    LET r == sub[s] IN
    (r.pc = "done" /\ Accepted(r) /\ ExtractorFailed(r) /\ InfraOk(r)) =>
      /\ r.response.status = 200
      /\ Persisted(r.response)
      /\ RowOf(r.response).status = "processed"
      /\ RowOf(r.response).userId = r.user.id
      /\ RowOf(r.response).date = r.date
      /\ RowOf(r.response).structuredData = r.response.data
      /\ r.response.data.other_animal_requirements =
           <<"Audio processing error - manual review required">>
      /\ \E i \in 1..Len(r.response.data.daily_animal_health_monitoring) :
           r.response.data.daily_animal_health_monitoring[i] = r.date
      /\ \E i \in 1..Len(r.response.data.daily_wildlife_monitoring) :
           r.response.data.daily_wildlife_monitoring[i] = r.date

C1_Witness ==
  \E s \in SubmitSlots :
    /\ sub[s].pc = "done" /\ sub[s].outcome.kind = "timeout"
    /\ InfraOk(sub[s]) /\ sub[s].response.status = 200
    /\ Persisted(sub[s].response)

\* C2: when the extractor returns a record and no store or file operation
\* fails, the submit is answered 200 with that record and the row it names
\* has status processed, that record as structuredData and a report
\* reference; and whenever such a submit is answered 200 the row it names is
\* processed with structuredData and a report reference.
C2_SuccessPersisted ==
  \A s \in SubmitSlots :
    LET r == sub[s] IN
    (r.pc = "done" /\ Accepted(r) /\ r.outcome.kind = "ok") =>
      /\ (r.tryFail = "-" /\ r.catchFail = "-") =>
           /\ r.response.status = 200
           /\ r.response.data = r.outcome.parsed
           /\ Persisted(r.response)
           /\ RowOf(r.response).structuredData = r.outcome.parsed
           /\ RowOf(r.response).userId = r.user.id
           /\ RowOf(r.response).date = r.date
      /\ r.response.status = 200 =>
           /\ Persisted(r.response)
           /\ RowOf(r.response).status = "processed"
           /\ RowOf(r.response).structuredData # JsonNull
           /\ RowOf(r.response).txtFileName # NoFile
           /\ RowOf(r.response).txtFileName \in DOMAIN reports

C2_Witness ==
  \E s \in SubmitSlots :
    /\ sub[s].pc = "done" /\ sub[s].outcome.kind = "ok"
    /\ sub[s].tryFail = "-" /\ sub[s].response.status = 200
    /\ RowOf(sub[s].response).txtFileName \in DOMAIN reports

\* C3: when the response of a submit whose file was uploaded is sent,
\* neither the uploaded file nor its working copy is in uploads/.
C3_TempFilesRemoved ==
  \A s \in SubmitSlots :
    (sub[s].pc = "done" /\ sub[s].uploaded) =>
      /\ MulterFile(s) \notin uploads
      /\ sub[s].audioFileName \notin uploads

\* C4: a submit whose only failure is the removal of a temporary file is
\* answered as one whose cleanup succeeded: the success message, and the
\* extractor's record, which is the structuredData of the row it names.
C4_CleanupFailureOnlyLogged ==
  \A s \in SubmitSlots :
    LET r == sub[s] IN
    (r.pc = "done" /\ r.tryFail \in {"unlink1", "unlink2"} /\ r.catchFail = "-") =>
      /\ r.response.status = 200
      /\ r.response.message = "Audio processed successfully"
      /\ r.response.data = r.structuredData
      /\ Persisted(r.response)
      /\ RowOf(r.response).structuredData = r.structuredData

\* C5: a submit request in its handler can always take a step: no await of
\* it stays pending for ever (the extractor call is cut off by a timeout).
C5_NeverPending ==
  \A s \in SubmitSlots :
    sub[s].pc \notin {"idle", "done"} => ENABLED SubmitSteps(s)

\* C6: a submit that passed authentication, role and validation is answered
\* 500 only when a store or file operation failed in the catch block; when
\* none failed it is answered 200 with the id of a stored row, whether the
\* extractor returned a record or failed.
C6_FailsOnlyOnPersistence ==
  \A s \in SubmitSlots :
    LET r == sub[s] IN
    (r.pc = "done" /\ Accepted(r)) =>
      /\ r.response.status \in {200, 500}
      /\ r.response.status = 500 => r.catchFail \in {"writeFile", "create"}
      /\ InfraOk(r) => (r.response.status = 200 /\ Persisted(r.response))

C6_Witness ==
  \E s \in SubmitSlots :
    /\ sub[s].pc = "done" /\ Accepted(sub[s])
    /\ sub[s].response.status = 500 /\ sub[s].catchFail = "create"

\* The replies a request without identity gets from the one-await handlers.
UnauthenticatedReplies ==
  /\ \A dbOk \in BOOLEAN :
       /\ MySubmissionsReply(NoUser, dbOk) = Reply(401, <<>>)
       /\ AllSubmissionsReply(NoUser, dbOk) = Reply(401, <<>>)
  /\ \A id \in Ids, dbOk \in BOOLEAN :
       /\ SubmissionReply(NoUser, id, dbOk) = Reply(401, <<>>)
       /\ DownloadReply(NoUser, id, dbOk) = Reply(401, <<>>)
  /\ \A id \in Ids, body \in CommentBodies, dbOk \in BOOLEAN :
       CommentReply(NoUser, id, body, dbOk) = Reply(401, <<>>)

\* A submit or edit request without identity is answered 401 at once: its
\* handler never runs, nothing was uploaded and no row was read.
UnauthenticatedSlots ==
  /\ \A s \in SubmitSlots :
       (sub[s].pc # "idle" /\ sub[s].user = NoUser) =>
         (sub[s].pc = "done" /\ sub[s].response.status = 401 /\ ~sub[s].uploaded)
  /\ \A p \in PutSlots :
       (put[p].pc # "idle" /\ put[p].user = NoUser) =>
         (put[p].pc = "done" /\ put[p].status = 401 /\ put[p].submission = NoRow)

\* The step that takes in a request without identity writes nothing.
UnauthenticatedStep ==
  /\ \A s \in SubmitSlots :
       (sub[s].pc = "idle" /\ sub'[s].pc # "idle" /\ sub'[s].user = NoUser) =>
         UNCHANGED <<submissions, comments, reports, uploads>>
  /\ \A p \in PutSlots :
       (put[p].pc = "idle" /\ put'[p].pc # "idle" /\ put'[p].user = NoUser) =>
         UNCHANGED <<submissions, comments, reports, uploads>>

\* C7: submit, list own, list all, get by id, add comment, download and edit
\* answer a request without identity with 401, before the handler runs and
\* without a write to the store or to a file.
C7_Unauthenticated ==
  [](UnauthenticatedReplies /\ UnauthenticatedSlots) /\ [][UnauthenticatedStep]_vars

C7_Witness ==
  \E p \in PutSlots :
    /\ put[p].pc = "done" /\ put[p].user = NoUser /\ put[p].status = 401
    /\ Exists(put[p].id) /\ HasStructuredData(put[p].body)

\* C8: with an identity, submit and list own are answered 200 only to a
\* zookeeper, list all and add comment only to an admin or a doctor; an
\* identity of another role is answered 403 without the handler running
\* (whatever the store would do, and nothing uploaded).
C8_RoleGate ==
  /\ \A user \in Users, dbOk \in BOOLEAN :
       /\ MySubmissionsReply(user, dbOk).status = 200 => user.role = "zookeeper"
       /\ user.role # "zookeeper" => MySubmissionsReply(user, dbOk) = Reply(403, <<>>)
       /\ AllSubmissionsReply(user, dbOk).status = 200 => user.role \in {"admin", "doctor"}
       /\ user.role \notin {"admin", "doctor"} =>
            AllSubmissionsReply(user, dbOk) = Reply(403, <<>>)
       /\ \A id \in Ids, body \in CommentBodies :
            /\ CommentReply(user, id, body, dbOk).status = 200 =>
                 user.role \in {"admin", "doctor"}
            /\ user.role \notin {"admin", "doctor"} =>
                 CommentReply(user, id, body, dbOk) = Reply(403, <<>>)
  /\ \A s \in SubmitSlots :
       /\ (sub[s].pc # "idle" /\ sub[s].user \in Users /\ sub[s].user.role # "zookeeper") =>
            (sub[s].pc = "done" /\ sub[s].response.status = 403 /\ ~sub[s].uploaded)
       /\ (sub[s].pc # "idle" /\ sub[s].response.status = 200) =>
            sub[s].user.role = "zookeeper"

C8_Witness ==
  /\ \E s \in SubmitSlots :
       sub[s].pc = "done" /\ sub[s].response.status = 403 /\ sub[s].user.role = "doctor"
  /\ \E user \in Users, id \in Ids, body \in CommentBodies :
       CommentReply(user, id, body, TRUE).status = 200
  /\ \E user \in Users : MySubmissionsReply(user, TRUE).rows # <<>>

\* The edit request slot p holds, before or after the step.
EditRequest(p) == IF put[p].pc = "idle" THEN put'[p] ELSE put[p]

\* The request is a zookeeper's for a submission another user authored.
ForeignKeeperEdit(r) ==
  /\ r.user.role = "zookeeper"
  /\ Exists(r.id)
  /\ submissions[r.id].userId # r.user.id

\* C9: a zookeeper's edit of a submission another user authored is answered
\* 403 once the row is read, and no step of the request changes a row or a
\* report.
C9_ForeignEditRejected ==
  /\ [](\A p \in PutSlots :
          (put[p].pc # "idle" /\ put[p].submission # NoRow /\ ForeignKeeperEdit(put[p])) =>
            (put[p].pc = "done" /\ put[p].status = 403))
  /\ [][\A p \in PutSlots :
          (put'[p] # put[p] /\ ForeignKeeperEdit(EditRequest(p))) =>
            UNCHANGED <<submissions, reports, comments>>]_vars

C9_Witness ==
  \E p \in PutSlots :
    /\ put[p].pc = "done" /\ put[p].status = 403
    /\ ForeignKeeperEdit(put[p])
    /\ HasStructuredData(put[p].body)

\* C10: a step of an edit request changes a row or a report only when the
\* requester is an admin, a doctor, or the zookeeper who authored the
\* submission.
C10_OnlyAuthorOrStaffEdit ==
  [][\A p \in PutSlots :
       (put'[p] # put[p] /\ (submissions' # submissions \/ reports' # reports)) =>
         \/ put[p].user.role \in {"admin", "doctor"}
         \/ (put[p].user.role = "zookeeper" /\ put[p].submission.userId = put[p].user.id)]_vars

\* The zookeepers, and the rows of the table as a set.
Keepers == {u \in Users : u.role = "zookeeper"}
Rows == {submissions[i] : i \in 1..Len(submissions)}

\* C11: the list a keeper gets from list own holds exactly the rows whose
\* author is that keeper, each once, and none of another author; the list is
\* chosen by the session identity alone, and list all is refused to a keeper.
C11_OwnListOnly ==
  \A user \in Keepers :
    LET rows == MySubmissionsReply(user, TRUE).rows IN
    /\ MySubmissionsReply(user, TRUE).status = 200
    /\ \A i \in 1..Len(rows) : rows[i].userId = user.id
    /\ {rows[i] : i \in 1..Len(rows)} = {row \in Rows : row.userId = user.id}
    /\ Len(rows) = Cardinality({row \in Rows : row.userId = user.id})
    /\ \A dbOk \in BOOLEAN : AllSubmissionsReply(user, dbOk) = Reply(403, <<>>)

C11_Witness ==
  \E a \in Keepers, b \in Keepers :
    /\ a # b
    /\ Len(MySubmissionsReply(a, TRUE).rows) = 1
    /\ Len(MySubmissionsReply(b, TRUE).rows) = 1
    /\ Len(submissions) = 2

\* The admins and doctors.
Staff == {u \in Users : u.role \in {"admin", "doctor"}}

\* C12: a doctor or admin who posts {content} for an existing submission
\* (the store answering and taking the row) is answered 200 with the created
\* comment, which carries that submission, the content and the poster; a
\* keeper is answered 403 whatever is posted.
C12_CommentCreated ==
  /\ \A user \in Staff, id \in Ids :
       (Exists(id) /\ Len(comments) < MaxComments) =>
         LET reply == CommentReply(user, id, [content |-> "noted"], TRUE) IN
         /\ reply.status = 200
         /\ reply.rows[1].submissionId = id
         /\ reply.rows[1].content = "noted"
         /\ reply.rows[1].userId = user.id
  /\ \A user \in Keepers, id \in Ids, body \in CommentBodies, dbOk \in BOOLEAN :
       CommentReply(user, id, body, dbOk) = Reply(403, <<>>)

\* The edit of slot p was answered 200 and its body carried structuredData.
EditedWithData(p) ==
  put[p].pc = "done" /\ put[p].status = 200 /\ HasStructuredData(put[p].body)

\* C13: once an edit that supplies structuredData is answered 200, the row
\* holds the supplied data and is the row sent back, and the report file the
\* row names is the rendering of the supplied data with the name of the
\* row's author and the row's date; the step that answers sets updatedAt to
\* the time of that step.
C13_EditStored ==
  /\ [](\A p \in PutSlots :
          EditedWithData(p) =>
            LET row == submissions[put[p].id] IN
            /\ row.structuredData = put[p].body.structuredData
            /\ put[p].updated = row
            /\ row.txtFileName \in DOMAIN reports
            /\ \E stamp \in 0..MaxTime :
                 reports[row.txtFileName] =
                   generateTxtReport(put[p].body.structuredData,
                                     UserById(row.userId).name, row.date, stamp))
  /\ [][\A p \in PutSlots :
          (put[p].pc = "update" /\ put'[p].pc = "done" /\ put'[p].status = 200) =>
            submissions'[put[p].id].updatedAt = now]_vars

C13_Witness ==
  \E p \in PutSlots :
    /\ EditedWithData(p)
    /\ put[p].updated.updatedAt > put[p].updated.createdAt
    /\ put[p].updated.structuredData = RecordSparse

\* C14: no step takes a row away or changes the createdAt, author, date,
\* audio reference or report reference of a row; a step of an edit that
\* changes the table changes the structuredData and updatedAt of one row and
\* nothing else.
C14_EditFrame ==
  [][/\ Len(submissions') >= Len(submissions)
     /\ \A i \in 1..Len(submissions) :
          /\ submissions'[i].id = submissions[i].id
          /\ submissions'[i].createdAt = submissions[i].createdAt
          /\ submissions'[i].userId = submissions[i].userId
          /\ submissions'[i].date = submissions[i].date
          /\ submissions'[i].audioFileName = submissions[i].audioFileName
          /\ submissions'[i].txtFileName = submissions[i].txtFileName
     /\ \A p \in PutSlots :
          (put'[p] # put[p] /\ submissions' # submissions) =>
            \E i \in 1..Len(submissions) :
              submissions' = [submissions EXCEPT
                                ![i].structuredData = submissions'[i].structuredData,
                                ![i].updatedAt = submissions'[i].updatedAt]]_vars

C14_Witness ==
  /\ comments # <<>>
  /\ \E i \in 1..Len(submissions) :
       /\ submissions[i].updatedAt > submissions[i].createdAt
       /\ submissions[i].structuredData = RecordSparse
       /\ comments[1].submissionId = i

\* C15: a row whose status is processed or error keeps that status through
\* every step (of a submit, an edit or a comment).
C15_StatusForward ==
  [][\A i \in 1..Len(submissions) :
       submissions[i].status \in {"processed", "error"} =>
         /\ i <= Len(submissions')
         /\ submissions'[i].status = submissions[i].status]_vars

C15_Witness ==
  \E p \in PutSlots :
    /\ put[p].pc = "done" /\ put[p].status = 200
    /\ submissions[put[p].id].status = "processed"
    /\ submissions[put[p].id].updatedAt > submissions[put[p].id].createdAt
    /\ comments # <<>>

\* C16: every row has structuredData that is not null exactly when its
\* status is not processing: no row is inserted without structuredData
\* (whatever the extractor printed), and no edit, with structuredData, with
\* null or without it in its body, leaves a processed row without.
C16_DataIffProcessed ==
  \A i \in 1..Len(submissions) :
    (submissions[i].structuredData # JsonNull) <=> (submissions[i].status # "processing")

C16_Witness ==
  \E p \in PutSlots :
    /\ put[p].pc = "done" /\ put[p].status = 200
    /\ Has(put[p].body, "structuredData") /\ put[p].body.structuredData = JsonNull
    /\ submissions[put[p].id].transcription = Txt("Audio processing failed")
    /\ submissions[put[p].id].structuredData # JsonNull

\* C17: every row names a report file, and that file is in reports/; the
\* file was written before the step that inserted the row.
C17_ReportWritten ==
  /\ [](\A i \in 1..Len(submissions) :
          /\ submissions[i].txtFileName # NoFile
          /\ submissions[i].txtFileName \in DOMAIN reports)
  /\ [][Len(submissions') > Len(submissions) =>
          submissions'[Len(submissions')].txtFileName \in DOMAIN reports]_vars

C17_Witness ==
  \E s \in SubmitSlots :
    /\ sub[s].pc = "done" /\ sub[s].tryFail = "writeFile"
    /\ sub[s].response.status = 200
    /\ RowOf(sub[s].response).txtFileName.ext = "_fallback.txt"
    /\ RowOf(sub[s].response).txtFileName \in DOMAIN reports

C19_MissingIdNotFound ==
  \A id \in Ids :
    ~Exists(id) =>
      /\ \A user \in Users :
           /\ SubmissionReply(user, id, TRUE) = Reply(404, <<>>)
           /\ DownloadReply(user, id, TRUE) = Reply(404, <<>>)
      /\ \A p \in PutSlots :
           (put[p].pc = "done" /\ put[p].id = id /\ put[p].user \in Users
              /\ put[p].fail = "-") => put[p].status = 404
      /\ \A user \in Staff, body \in {b \in CommentBodies : insertCommentSchema(b)} :
           CommentReply(user, id, body, TRUE).status = 404

\* The submit request r is a keeper's and lacks the audio file, or has it
\* and lacks the date.
Invalid(r) ==
  /\ r.user \in Keepers
  /\ r.file = "none" \/ (r.file = "audio" /\ r.date = NoDate)

\* The submit request slot s holds, before or after the step.
SubmitOf(s) == IF sub[s].pc = "idle" THEN sub'[s] ELSE sub[s]

\* C20: a keeper's submit without the audio file, or without a date, is
\* answered 400 at once: the extractor is not called, no report is named and
\* no row inserted, and no step of the request changes the tables or the
\* reports.
C20_ValidationRejected ==
  /\ [](\A s \in SubmitSlots :
          (sub[s].pc # "idle" /\ Invalid(sub[s])) =>
            /\ sub[s].pc = "done"
            /\ sub[s].response.status = 400
            /\ sub[s].outcome = NoOutcome
            /\ sub[s].txtFileName = NoFile
            /\ sub[s].submission = NoRow)
  /\ [][\A s \in SubmitSlots :
          (sub'[s] # sub[s] /\ Invalid(SubmitOf(s))) =>
            UNCHANGED <<submissions, comments, reports>>]_vars

C20_Witness ==
  \E s \in SubmitSlots :
    /\ sub[s].pc = "done" /\ sub[s].user \in Keepers
    /\ sub[s].file = "audio" /\ sub[s].date = NoDate
    /\ sub[s].response = Response(400, "Date is required", 0, JsonNull)
    /\ submissions # <<>>

\* ===================================================== the renderer

\* The fields of a structured observation that a record may lack.
OptionalFields ==
  { "normal_behaviour_details", "other_animal_requirements",
    "daily_animal_health_monitoring", "carnivorous_animal_feeding_chart",
    "medicine_stock_register", "daily_wildlife_monitoring", "incharge_signature" }

\* The record d without the fields fs.
Without(d, fs) == [f \in DOMAIN d \ fs |-> d[f]]

\* The records rendered in SpecRender: with every field, with no optional
\* field, and with each optional field missing in turn.
RenderRecords ==
  {RecordFull, RecordSparse} \cup {Without(RecordFull, {f}) : f \in OptionalFields}

\* The steps of an edit when every file and store operation succeeds.
PutStepsOk(p) ==
  \/ PutGet(p, TRUE)
  \/ PutWriteFile(p, TRUE)
  \/ PutUpdate(p, TRUE)
  \/ PutEnd(p)

\* SpecRender: the renderer at work.  A keeper's submission is taken in, then
\* its author and the staff edit it with every record of RenderRecords, one
\* request at a time, the clock advancing between them; every edit renders
\* the record of its body.
NextRender ==
  \/ (Quiet /\ Tick)
  \/ \E s \in SubmitSlots, user \in Keepers, date \in Dates :
       Quiet /\ submissions = <<>> /\ SubmitRequest(s, user, "audio", date)
  \/ \E s \in SubmitSlots : SubmitStepsOk(s)
  \/ \E p \in PutSlots, user \in Keepers \cup Staff, d \in RenderRecords :
       Quiet /\ PutRequest(p, user, 1, [structuredData |-> d])
  \/ \E p \in PutSlots : PutStepsOk(p)
  \/ Download

SpecRender == Init /\ [][NextRender]_vars

\* The edit of slot p has rendered the record of its body (txtContent).
Rendered(p) ==
  /\ put[p].pc \in {"write", "update", "done"}
  /\ put[p].submission # NoRow
  /\ HasStructuredData(put[p].body)
  /\ put[p].txtContent # <<>>

\* The rendering of the inputs of the edit of slot p, made at time stamp.
RenderedAt(p, stamp) ==
  generateTxtReport(put[p].body.structuredData,
                    UserById(put[p].submission.userId).name, put[p].submission.date, stamp)

\* C21: a rendering and a rendering of the same record, author name and date
\* made at any other time have the same number of lines and differ in the
\* "Generated: " line at most, of which there is one.
C21_SameButStamp ==
  \A p \in PutSlots :
    Rendered(p) =>
      /\ Cardinality({i \in 1..Len(put[p].txtContent) :
                        put[p].txtContent[i][1] = "Generated: "}) = 1
      /\ \A stamp \in 0..MaxTime :
           /\ Len(RenderedAt(p, stamp)) = Len(put[p].txtContent)
           /\ \A i \in 1..Len(put[p].txtContent) :
                RenderedAt(p, stamp)[i] # put[p].txtContent[i] =>
                  put[p].txtContent[i][1] = "Generated: "

\* The record of the row is rendered a second time, later: the report on
\* disk is its first rendering.
C21_Witness ==
  \E p \in PutSlots :
    /\ Rendered(p) /\ put[p].pc = "write"
    /\ put[p].submission.structuredData = put[p].body.structuredData
    /\ put[p].body.structuredData = Without(RecordFull, {"incharge_signature"})
    /\ reports[put[p].submission.txtFileName] # put[p].txtContent
    /\ \E stamp \in 0..MaxTime :
         reports[put[p].submission.txtFileName] = RenderedAt(p, stamp)

\* The first fragment of the line that heads the section of a field.
Heading(f) ==
  CASE f = "normal_behaviour_details" -> "Behaviour Details: "
    [] f = "other_animal_requirements" -> "Other Requirements: "
    [] f = "daily_animal_health_monitoring" -> "Daily Animal Health Monitoring:"
    [] f = "carnivorous_animal_feeding_chart" -> "Carnivorous Animal Feeding Chart:"
    [] f = "medicine_stock_register" -> "Medicine Stock Register:"
    [] f = "daily_wildlife_monitoring" -> "Daily Wildlife Monitoring:"
    [] f = "incharge_signature" -> "In-charge Signature: "

\* The lines of a report whose first fragment is head.
LinesOf(lines, head) == {i \in 1..Len(lines) : lines[i][1] = head}

\* C22: a rendering of a record that lacks an optional field has no line
\* with the heading of that field, and no line that stands for the missing
\* value ("undefined", "null").
C22_MissingOmitted ==
  \A p \in PutSlots :
    Rendered(p) =>
      /\ \A f \in OptionalFields :
           ~Truthy(put[p].body.structuredData, f) =>
             LinesOf(put[p].txtContent, Heading(f)) = {}
      /\ LinesOf(put[p].txtContent, "undefined") = {}
      /\ LinesOf(put[p].txtContent, "null") = {}

\* The one line of a report whose first fragment is head.
LineOf(lines, head) == CHOOSE i \in 1..Len(lines) : lines[i][1] = head

\* C23: in a rendering the headings come in the order observation details,
\* monitoring summaries, authorization, footer, and the other-requirements
\* line, when the record has the text, lies after the monitoring summaries
\* heading (and the summaries under it) and before the authorization.
C23_SectionOrder ==
  \A p \in PutSlots :
    Rendered(p) =>
      LET lines == put[p].txtContent IN
      /\ LineOf(lines, "OBSERVATION DETAILS") < LineOf(lines, "MONITORING SUMMARIES")
      /\ LineOf(lines, "MONITORING SUMMARIES") < LineOf(lines, "AUTHORIZATION")
      /\ LineOf(lines, "AUTHORIZATION") <
           LineOf(lines, "This report was generated automatically by the Zoo Management System.")
      /\ Truthy(put[p].body.structuredData, "other_animal_requirements") =>
           /\ LinesOf(lines, "Other Requirements: ") # {}
           /\ LineOf(lines, "Other Requirements: ") > LineOf(lines, "Daily Wildlife Monitoring:")
           /\ LineOf(lines, "Other Requirements: ") < LineOf(lines, "AUTHORIZATION")

\* The boolean flags of a structured observation.
Flags ==
  { "animal_observed_on_time", "clean_drinking_water_provided",
    "enclosure_cleaned_properly", "normal_behaviour_status",
    "feed_and_supplements_available", "feed_given_as_prescribed" }

\* C24: whichever way the extractor failed (a timeout, a malformed output,
\* an upstream error), with no file or store failure, the row stored and the
\* response are those the author and the date alone determine: the fallback
\* record with every flag true as structuredData, the transcription
\* "Audio processing failed", and the response with the fallback message, the
\* row's id and that record.
C24_FallbackUniform ==
  \A s \in SubmitSlots :
    LET r == sub[s] IN
    (r.pc = "done" /\ Accepted(r) /\ ExtractorFailed(r) /\ InfraOk(r)) =>
      /\ Persisted(r.response)
      /\ r.response = Response(200, "Audio processed with fallback data",
                                r.response.submissionId, FallbackData(r.user, r.date))
      /\ RowOf(r.response).structuredData = FallbackData(r.user, r.date)
      /\ \A f \in Flags : RowOf(r.response).structuredData[f] = TRUE
      /\ RowOf(r.response).transcription = Txt("Audio processing failed")
      /\ RowOf(r.response).status = "processed"

C24_Witness ==
  \E s \in SubmitSlots :
    /\ sub[s].pc = "done" /\ sub[s].outcome.kind = "malformed" /\ sub[s].outcome.json
    /\ InfraOk(sub[s]) /\ sub[s].response.status = 200
    /\ RowOf(sub[s].response).transcription = Txt("Audio processing failed")

\* ===================================================== a stored table

\* The store outlives the server, and txt_file_name is a nullable column: a
\* row the server finds at its start names a report (ref) or names none
\* (NoFile), which is what the handlers test with !submission.txtFileName.
StoredRow(ref) ==
  [ id |-> 1, userId |-> "u1", date |-> "2024-05-01",
    audioFileName |-> FileName("keeperA", "2024-05-01", 0, ".wav"),
    transcription |-> Txt("Transcribed from Hindi audio"), structuredData |-> RecordFull,
    txtFileName |-> ref, status |-> "processed", createdAt |-> 0, updatedAt |-> 0 ]

StoredReport == FileName("keeperA", "2024-05-01", 0, ".txt")

\* The server starts on a table of one processed submission, with its report
\* or without a report reference.
InitStored ==
  /\ now = 0
  /\ \E ref \in {NoFile, StoredReport} :
       /\ submissions = <<StoredRow(ref)>>
       /\ reports = IF ref = NoFile THEN <<>>
                    ELSE (ref :> generateTxtReport(RecordFull, "Asha", "2024-05-01", 0))
  /\ comments = <<>>
  /\ uploads = {}
  /\ sub = [s \in SubmitSlots |-> IdleSubmit]
  /\ put = [p \in PutSlots |-> IdlePut]

\* SpecStored: the accesses to a stored submission: downloads and reads, and
\* edits of every identity, id and body with a failure possible at every
\* operation, one at a time, the clock advancing between them.
NextStored ==
  \/ (Quiet /\ Tick)
  \/ \E p \in PutSlots, user \in Identities, id \in Ids, body \in EditBodies :
       Quiet /\ PutRequest(p, user, id, body)
  \/ \E p \in PutSlots : PutSteps(p)
  \/ GetSubmission
  \/ Download

SpecStored == InitStored /\ [][NextStored]_vars

C26_AtMostOneRow ==
  [][\A s \in SubmitSlots :
       (sub[s].pc \notin {"idle", "done"} /\ sub[s].submission # NoRow
          /\ sub'[s] # sub[s]) =>
         submissions' = submissions]_vars

\* C27: when the extractor returned a record and the submit is answered 200,
\* the row the response names holds that record as structuredData (and not
\* the fallback record), whichever file or store operation failed on the way.
C27_FallbackOnlyOnExtractorFailure ==
  \A s \in SubmitSlots :
    LET r == sub[s] IN
    (r.pc = "done" /\ Accepted(r) /\ r.outcome.kind = "ok" /\ r.response.status = 200) =>
      /\ Persisted(r.response)
      /\ RowOf(r.response).structuredData = r.outcome.parsed
      /\ RowOf(r.response).structuredData # FallbackData(r.user, r.date)

\* ===================================================== concurrent edits

\* Two edit requests can be in flight at once: the handler awaits, and the
\* event loop runs the steps of another request in between.
RacePutSlots == {"p1", "p2"}

InitEditRace ==
  /\ now = 0
  /\ submissions = <<>>
  /\ comments = <<>>
  /\ reports = <<>>
  /\ uploads = {}
  /\ sub = [s \in SubmitSlots |-> IdleSubmit]
  /\ put = [p \in RacePutSlots |-> IdlePut]

\* No request is in flight, in any slot.
AllQuiet ==
  /\ \A s \in DOMAIN sub : sub[s].pc = "idle"
  /\ \A p \in DOMAIN put : put[p].pc = "idle"

\* SpecEditRace: a keeper's submission is taken in, then edits of it by the
\* keepers and the staff, with either of two records, run in two slots whose
\* steps interleave freely; no file or store operation fails.
NextEditRace ==
  \/ (AllQuiet /\ Tick)
  \/ \E s \in SubmitSlots, user \in Keepers, date \in Dates :
       AllQuiet /\ submissions = <<>> /\ SubmitRequest(s, user, "audio", date)
  \/ \E s \in SubmitSlots : SubmitStepsOk(s)
  \/ \E p \in RacePutSlots, user \in Keepers \cup Staff, d \in {RecordFull, RecordSparse} :
       /\ submissions # <<>>
       /\ PutRequest(p, user, 1, [structuredData |-> d])
  \/ \E p \in RacePutSlots : PutStepsOk(p)

SpecEditRace == InitEditRace /\ [][NextEditRace]_vars

\* No request is running: every slot is idle or has answered.
Settled ==
  /\ \A s \in DOMAIN sub : sub[s].pc \in {"idle", "done"}
  /\ \A p \in DOMAIN put : put[p].pc \in {"idle", "done"}

\* C28: once the edits in flight have completed, the report file of every
\* row is a rendering of the structuredData stored in that row, with the
\* name of the row's author and the row's date.
C28_ReportMatchesRow ==
  Settled =>
    \A i \in 1..Len(submissions) :
      /\ submissions[i].txtFileName \in DOMAIN reports
      /\ \E stamp \in 0..MaxTime :
           reports[submissions[i].txtFileName] =
             generateTxtReport(submissions[i].structuredData,
                               UserById(submissions[i].userId).name,
                               submissions[i].date, stamp)

\* ===================================================== concurrent submits

\* Two submit requests can be in flight at once.
RaceSubmitSlots == {"s1", "s2"}

InitSubmitRace ==
  /\ now = 0
  /\ submissions = <<>>
  /\ comments = <<>>
  /\ reports = <<>>
  /\ uploads = {}
  /\ sub = [s \in RaceSubmitSlots |-> IdleSubmit]
  /\ put = [p \in PutSlots |-> IdlePut]

\* The steps of a submit in SpecSubmitRace: the extractor returns a record
\* or exits nonzero, and no file or store operation fails unless the file it
\* works on is gone.
SubmitStepsRace(s) ==
  \/ ReadFile(s, TRUE)
  \/ CopyFile(s, TRUE)
  \/ \E outcome \in {o \in ExtractorOutcomes : o.kind \in {"ok", "upstream"}} :
       Exec(s, outcome)
  \/ WriteFile(s, TRUE)
  \/ Create(s, TRUE)
  \/ Unlink1(s, TRUE)
  \/ Unlink2(s, TRUE)
  \/ FallbackWriteFile(s, TRUE)
  \/ FallbackCreate(s, TRUE)
  \/ SubmitEnd(s)

\* SpecSubmitRace: submits of one keeper run in two slots whose steps
\* interleave freely, the clock advancing at any time.
NextSubmitRace ==
  \/ Tick
  \/ \E s \in RaceSubmitSlots, user \in {u \in Keepers : u.userId = "keeperA"},
        date \in Dates :
       SubmitRequest(s, user, "audio", date)
  \/ \E s \in RaceSubmitSlots : SubmitStepsRace(s)

SpecSubmitRace == InitSubmitRace /\ [][NextSubmitRace]_vars

\* C29: two different rows name different report files.
C29_ReportsDistinct ==
  \A i \in 1..Len(submissions), j \in 1..Len(submissions) :
    i # j => submissions[i].txtFileName # submissions[j].txtFileName

\* ------------------------------------------------ whose comment, on what

\* The comment row the handler inserts for path id and session user.
CommentOf(user, id, body) ==
  [ id |-> Len(comments) + 1, submissionId |-> id, userId |-> user.id,
    content |-> body.content, createdAt |-> now ]

\* C30: a comment that is accepted is stored on the submission of the path
\* and under the session user, whatever submissionId or userId its body
\* names; and every step that adds a comment adds the row of such a request.
C30_CommentOnPathBySession ==
  /\ [](\A user \in Identities, id \in Ids, body \in CommentBodies, dbOk \in BOOLEAN :
          CommentReply(user, id, body, dbOk).status = 200 =>
            /\ user \in Staff
            /\ Exists(id)
            /\ CommentReply(user, id, body, dbOk).rows = <<CommentOf(user, id, body)>>)
  /\ [][comments' # comments =>
          \E user \in Staff, id \in Ids,
             body \in {b \in CommentBodies : insertCommentSchema(b)} :
            /\ Exists(id)
            /\ comments' = Append(comments, CommentOf(user, id, body))]_vars

\* A doctor's comment is stored on submission 1 while no other submission
\* exists (bodies naming submission 2 and user u1 were among the requests).
C30_Witness ==
  /\ Len(comments) = 1
  /\ comments[1].submissionId = 1
  /\ comments[1].userId = "u3"
  /\ Exists(1) /\ ~Exists(2)
  /\ [content |-> "noted", submissionId |-> 2] \in CommentBodies
  /\ \A p \in PutSlots : put[p].pc = "idle"

====
